---- MODULE Spec2Model ----
(***************************************************************************)
(* A model of nobrainer/predict.py: the dispatcher `predict`, the four     *)
(* predictors it routes to (array, image, filepath, filepaths) and the     *)
(* predictor resolver `_get_predictor`.                                    *)
(*                                                                         *)
(* One behaviour is one call made by a client of the module: Init draws    *)
(* the function called and its arguments, and every action is one step of  *)
(* the code (a statement or a group of adjacent statements).  Python       *)
(* values are records tagged with their runtime type in field `kind`.      *)
(* A volume is the sequence of its voxels and a block shape is the number  *)
(* of voxels in a block.                                                    *)
(***************************************************************************)
EXTENDS Integers, Sequences, FiniteSets

(***************************************************************************)
(* Bounds of the model.                                                    *)
(***************************************************************************)
MaxBlocks == 3      \* a volume given to predict_from_array has 1..MaxBlocks blocks
MaxBatch == 4       \* batch_size ranges over 1..MaxBatch
MaxFiles == 3       \* a list of filepaths has 0..MaxFiles entries
MaxExtraNext == 1   \* the consumer calls next() at most this often on a finished generator

(***************************************************************************)
(* Python values.                                                          *)
(***************************************************************************)
Unbound == [kind |-> "unbound"]          \* a local name that has not been assigned
NoneValue == [kind |-> "NoneType"]

DT_X == "float32"
_INFERENCE_CLASSES_KEY == "class_ids"
NoDtype == "None"                         \* dtype=None
NoNormalizer == "None"                    \* normalizer=None (falsy)
Dtypes == {DT_X, "uint8", NoDtype}
Normalizers == {"normalize_zero_one", "custom", NoNormalizer}

Voxels == {0, 300}
BlockShapes == {1, 2}
NaN == 0 - 1                              \* the result of 0/0 in a float array
Scale == 4                                \* 1.0 in the fixed-point representation of normalized intensities

ndarray(dtype, data) == [kind |-> "ndarray", dtype |-> dtype, data |-> data]

RECURSIVE SeqsUpTo(_, _)
SeqsUpTo(S, n) ==
    IF n = 0 THEN {<<>>}
    ELSE LET shorter == SeqsUpTo(S, n - 1)
         IN  shorter \cup {Append(s, x) : s \in {t \in shorter : Len(t) = n - 1}, x \in S}

SeqsOfLen(S, n) == {s \in SeqsUpTo(S, n) : Len(s) = n}

Min(a, b) == IF a < b THEN a ELSE b
SeqMax(s) == CHOOSE m \in {s[i] : i \in 1..Len(s)} : \A i \in 1..Len(s) : s[i] <= m
SeqMin(s) == CHOOSE m \in {s[i] : i \in 1..Len(s)} : \A i \in 1..Len(s) : m <= s[i]
CeilDiv(n, b) == (n + b - 1) \div b
(***************************************************************************)
(* numpy and the collaborators in nobrainer.volume.                        *)
(***************************************************************************)
\* ndarray.astype(dtype): float32 holds these integers exactly, uint8 wraps.
astype(a, dtype) ==
    ndarray(dtype, [i \in 1..Len(a.data) |->
                      IF dtype = "uint8" THEN a.data[i] % 256 ELSE a.data[i]])

\* normalize_zero_one(a) == (a - a.min()) / (a.max() - a.min()); a constant
\* array divides 0 by 0.  True division of a non-float32 array gives float64.
normalize_zero_one(a) ==
    LET lo == SeqMin(a.data)
        hi == SeqMax(a.data)
    IN  ndarray(IF a.dtype = DT_X THEN DT_X ELSE "float64",
                [i \in 1..Len(a.data) |->
                   IF hi = lo THEN NaN
                   ELSE ((a.data[i] - lo) * Scale) \div (hi - lo)])

\* A normalizer supplied by the caller: it inverts the intensities.
custom_normalizer(a) ==
    ndarray(a.dtype, [i \in 1..Len(a.data) |-> SeqMax(a.data) - a.data[i]])

CallNormalizer(normalizer, a) ==
    IF normalizer = "normalize_zero_one" THEN normalize_zero_one(a)
    ELSE custom_normalizer(a)

\* to_blocks(a, block_shape): the ordered batch of non-overlapping blocks.
to_blocks(a, block_shape) ==
    [kind |-> "ndarray", dtype |-> a.dtype,
     data |-> [b \in 1..(Len(a.data) \div block_shape) |->
                 SubSeq(a.data, (b - 1) * block_shape + 1, b * block_shape)]]

RECURSIVE Concat(_)
Concat(blocks) ==
    IF blocks = <<>> THEN <<>> ELSE Head(blocks) \o Concat(Tail(blocks))

\* from_blocks(a, output_shape): the inverse of to_blocks.
from_blocks(a, output_shape) ==
    ndarray(a.dtype, SubSeq(Concat(a.data), 1, output_shape))

\* np.zeros_like(a) for a batch of blocks.
zeros_like(a) ==
    [kind |-> "ndarray", dtype |-> a.dtype,
     data |-> [b \in 1..Len(a.data) |-> [i \in 1..Len(a.data[b]) |-> 0]]]

\* features[..., None]: every voxel becomes a one-channel vector.
AddChannel(a) ==
    [kind |-> "ndarray", dtype |-> a.dtype,
     data |-> [b \in 1..Len(a.data) |-> [i \in 1..Len(a.data[b]) |-> <<a.data[b][i]>>]]]

\* Python's s[j:j + n] for a 0-based j, as 1-based positions of s.
SliceIdx(len, j, n) == (j + 1)..Min(j + n, len)
Slice(s, j, n) == SubSeq(s, j + 1, Min(j + n, Len(s)))

(***************************************************************************)
(* The inference handle: a deterministic model that labels each block on   *)
(* its own.  A voxel gets class 1 when it is the brightest of its block.   *)
(***************************************************************************)
PredictBlock(block) ==
    LET vals == [i \in 1..Len(block) |-> block[i][1]]
    IN  [i \in 1..Len(block) |->
           IF vals[i] # NaN /\ vals[i] = SeqMax(vals) THEN 1 ELSE 0]

\* predictor({'volume': chunk}): a mapping with the class ids of the chunk.
CallPredictor(feed) ==
    [class_ids |-> [b \in 1..Len(feed.volume) |-> PredictBlock(feed.volume[b])]]

(***************************************************************************)
(* The world outside the module: image files and saved models on disk.     *)
(***************************************************************************)
FilePaths == {"a.nii", "b.nii", "missing.nii"}

\* Path(filepath).is_file()
is_file(filepath) == filepath \in {"a.nii", "b.nii"}

\* nib.load(filepath) for an existing file: int16 data and its metadata.
nib_load(filepath) ==
    [kind |-> "SpatialImage",
     dataobj |-> ndarray("int16", IF filepath = "a.nii" THEN <<0, 300>> ELSE <<300, 100>>),
     affine |-> filepath, header |-> filepath, extra |-> filepath]

\* nib.spatialimages.SpatialImage(dataobj=y, affine=..., header=..., extra=...)
SpatialImage(dataobj, affine, header, extra) ==
    [kind |-> "SpatialImage", dataobj |-> dataobj,
     affine |-> affine, header |-> header, extra |-> extra]

\* np.asarray(img.dataobj)
asarray(dataobj) == dataobj

\* A path is the sequence of its components, each a stem and a suffix.
Component(stem, suffix) == [stem |-> stem, suffix |-> suffix]
PathStr(parts) == [kind |-> "str", parts |-> parts]
ModelDir == <<Component("model", "")>>
TheHandle == [kind |-> "Predictor", model |-> ModelDir]

\* Path(x): only str (and path-like) values convert.
PathConvertible(x) == x.kind = "str"
\* path.suffix and path.parent
suffix(parts) == IF parts = <<>> THEN "" ELSE parts[Len(parts)].suffix
parent(parts) == IF parts = <<>> THEN <<>> ELSE SubSeq(parts, 1, Len(parts) - 1)
\* tf.contrib.predictor.from_saved_model(str(path)) succeeds on a saved-model directory.
IsSavedModel(parts) == parts = ModelDir

PredictorArgs ==
    { TheHandle,
      PathStr(ModelDir),
      PathStr(ModelDir \o <<Component("saved_model", ".pb")>>),
      PathStr(<<Component("nowhere", "")>>),
      PathStr(<<Component("model", ".pb")>>),
      [kind |-> "int"] }

(***************************************************************************)
(* Exceptions: the type raised and the type of the exception that was      *)
(* being handled when it was raised (Python's __context__).                *)
(***************************************************************************)
Exception(type, context) == [type |-> type, context |-> context]
NoError == Exception("None", "None")

(***************************************************************************)
(* The calls a client can make.                                            *)
(***************************************************************************)
Entries ==
    {"predict", "predict_from_array", "predict_from_img",
     "predict_from_filepath", "predict_from_filepaths", "_get_predictor"}

Args(inputs, predictor, block_shape, normalizer, batch_size, dtype) ==
    [inputs |-> inputs, predictor |-> predictor, block_shape |-> block_shape,
     normalizer |-> normalizer, batch_size |-> batch_size, dtype |-> dtype]

NoFrame == Args(Unbound, Unbound, 0, "-", 0, "-")

\* Volumes of 1..n blocks of the given shape.
Volumes(block_shape, n) ==
    {ndarray(DT_X, d) : d \in UNION {SeqsOfLen(Voxels, block_shape * k) : k \in 1..n}}

StrInputs == {[kind |-> "str", s |-> p] : p \in FilePaths}
ListInputs(kinds, n) ==
    {[kind |-> k, items |-> fs] : k \in kinds, fs \in SeqsUpTo(FilePaths, n)}
ImageInputs == {nib_load("a.nii"), nib_load("b.nii")}
OtherInputs == {NoneValue, [kind |-> "int"], [kind |-> "dict"]}

\* The block shape used with the images on disk, which are one block each.
ImageBlockShapes == {2}

\* The inputs given to predict: every kind of inputs it tells apart (arrays of
\* one or two blocks, images, paths, lists and tuples of up to two paths, and
\* values of no recognised type).
DispatchInputs ==
    UNION {Volumes(bs, 2) : bs \in ImageBlockShapes} \cup ImageInputs \cup StrInputs
        \cup ListInputs({"list", "tuple"}, 2) \cup OtherInputs
\* The arguments of each call; predict alone resolves its predictor argument,
\* the predictors below it are given a handle.
ArgsOf(e) ==
    CASE e = "predict" ->
           {Args(i, p, bs, n, b, d) :
              i \in DispatchInputs, p \in PredictorArgs, bs \in ImageBlockShapes,
              n \in Normalizers, b \in 1..MaxBatch, d \in Dtypes}
      [] e = "predict_from_array" ->
           UNION {{Args(v, TheHandle, bs, n, b, "-") :
                     v \in Volumes(bs, MaxBlocks),
                     n \in Normalizers, b \in 1..MaxBatch} : bs \in BlockShapes}
      [] e = "predict_from_img" ->
           {Args(i, TheHandle, bs, n, b, d) :
              i \in ImageInputs \cup {ndarray(DT_X, <<0, 300>>), NoneValue}
                    \cup {[kind |-> "str", s |-> "a.nii"]},
              bs \in ImageBlockShapes, n \in Normalizers, b \in 1..MaxBatch, d \in Dtypes}
      [] e = "predict_from_filepath" ->
           {Args(i, TheHandle, bs, n, b, d) :
              i \in StrInputs,
              bs \in ImageBlockShapes, n \in Normalizers, b \in 1..MaxBatch, d \in Dtypes}
      [] e = "predict_from_filepaths" ->
           {Args(i, TheHandle, bs, n, b, d) :
              i \in ListInputs({"list"}, MaxFiles),
              bs \in ImageBlockShapes, n \in Normalizers, b \in 1..MaxBatch, d \in Dtypes}
      [] e = "_get_predictor" ->
           {Args(Unbound, p, 0, "-", 0, "-") : p \in PredictorArgs}

(***************************************************************************)
(* State.                                                                  *)
(***************************************************************************)
VARIABLES
    entry,       \* the function the client called
    args,        \* the arguments the client gave
    pc,          \* the statement about to run; "done" and "raised" when control is with the client
    stack,       \* the active calls, outermost first
    frames,      \* the parameters of the latest call of each predictor
    handle,      \* predict: the local `predictor` after line 49
    out,         \* predict: the local `out`
    features,    \* predict_from_array: the local `features`
    outputs,     \* predict_from_array: the local `outputs`
    j,           \* predict_from_array: the loop variable
    calls,       \* predict_from_array: the calls of the predictor so far, each the range [lo, hi) of 0-based blocks it was given
    img_inputs,  \* predict_from_img: the local `inputs`
    gen,         \* the generator made by predict_from_filepaths
    accesses,    \* the outcome of each next() the client made on the generator
    processed,   \* the filepaths the generator has started to process
    ret,         \* the value most recently returned by a call to its caller
    result,      \* the value returned to the client
    err,         \* the exception raised to the client
    log          \* the calls made, in order, as [fn, caller]

vars == <<entry, args, pc, stack, frames, handle, out, features, outputs, j, calls,
          img_inputs, gen, accesses, processed, ret, result, err, log>>

Predictors ==
    {"predict_from_array", "predict_from_img", "predict_from_filepath", "predict_from_filepaths"}

NoGen == [state |-> "none", idx |-> 0]
Top == stack[Len(stack)]
Active(f) == \E i \in 1..Len(stack) : stack[i] = f
Event(fn, caller) == [fn |-> fn, caller |-> caller]

Init ==
    /\ entry \in Entries
    /\ args \in ArgsOf(entry)
    /\ pc = entry
    /\ stack = <<entry>>
    /\ frames = [f \in Predictors |-> IF f = entry THEN args ELSE NoFrame]
    /\ handle = Unbound
    /\ out = Unbound
    /\ features = Unbound
    /\ outputs = Unbound
    /\ j = 0
    /\ calls = <<>>
    /\ img_inputs = Unbound
    /\ gen = NoGen
    /\ accesses = <<>>
    /\ processed = <<>>
    /\ ret = Unbound
    /\ result = Unbound
    /\ err = NoError
    /\ log = <<Event(entry, "client")>>

(***************************************************************************)
(* Calls, returns and raises.                                              *)
(***************************************************************************)
\* Where a caller resumes when the call it made returns.
Resume(caller) ==
    CASE caller = "predict" -> "predict_out"
      [] caller = "predict_from_img" -> "pfi_return"
      [] caller = "predict_from_filepath" -> "pff_return"
      [] caller = "generator" -> "gen_yield"

\* The running function calls predictor f with parameters p.
Call(f, p) ==
    /\ frames' = [frames EXCEPT ![f] = p]
    /\ stack' = Append(stack, f)
    /\ pc' = f
    /\ log' = Append(log, Event(f, Top))

\* The running function returns v: to the client, or to its caller.
Return(v) ==
    /\ stack' = SubSeq(stack, 1, Len(stack) - 1)
    /\ IF Len(stack) = 1
       THEN pc' = "done" /\ result' = v /\ ret' = ret
       ELSE pc' = Resume(stack[Len(stack) - 1]) /\ ret' = v /\ result' = result

Access(outcome, value, error) == [outcome |-> outcome, value |-> value, error |-> error]

\* A generator that skips a failing filepath and goes on with the next.
AfterRaise_SkipAndContinue(g) == [g EXCEPT !.state = "suspended"]

\* What a generator is after an exception left its body.
AfterRaise(g) == [g EXCEPT !.state = "closed"]

\* The running function raises e and no active function handles it: the
\* exception reaches the client, through next() when a generator is running.
Raise(e) ==
    /\ stack' = <<>>
    /\ IF stack[1] = "generator"
       THEN /\ pc' = "done"
            /\ gen' = AfterRaise(gen)
            /\ accesses' = Append(accesses, Access("raise", Unbound, e))
            /\ err' = err
       ELSE /\ pc' = "raised"
            /\ err' = e
            /\ UNCHANGED <<gen, accesses>>

(***************************************************************************)
(* _get_predictor                                                          *)
(***************************************************************************)
Outcome(ok, value, error) == [ok |-> ok, value |-> value, error |-> error]

\* The body of the try block: Path(predictor), the .pb suffix, the load.
TryLoad(predictor) ==
    IF ~PathConvertible(predictor)
    THEN Outcome(FALSE, Unbound, Exception("TypeError", "None"))
    ELSE LET path == IF suffix(predictor.parts) = ".pb"
                     THEN parent(predictor.parts) ELSE predictor.parts
         IN  IF IsSavedModel(path)
             THEN Outcome(TRUE, [kind |-> "Predictor", model |-> path], NoError)
             ELSE Outcome(FALSE, Unbound, Exception("OSError", "None"))

\* A handler for the load alone: `except OSError`.
Handles_OnlyOSError(type) == type = "OSError"

\* `except Exception`: the handler takes every exception the try block raises.
Handles(type) == TRUE

get_predictor(predictor) ==
    IF predictor.kind = "Predictor"
    THEN Outcome(TRUE, predictor, NoError)
    ELSE LET o == TryLoad(predictor)
         IN  IF o.ok \/ ~Handles(o.error.type)
             THEN o
             ELSE Outcome(FALSE, Unbound, Exception("ValueError", o.error.type))

_get_predictor ==
    /\ pc = "_get_predictor"
    /\ LET o == get_predictor(args.predictor)
       IN  IF ~o.ok
           THEN /\ Raise(o.error)
                /\ UNCHANGED <<handle, result, ret>>
           ELSE IF Len(stack) = 1
           THEN /\ Return(o.value)
                /\ UNCHANGED <<handle, gen, accesses, err>>
           ELSE /\ handle' = o.value
                /\ stack' = SubSeq(stack, 1, Len(stack) - 1)
                /\ pc' = "predict_dispatch"
                /\ UNCHANGED <<result, ret, gen, accesses, err>>
    /\ UNCHANGED <<entry, args, frames, out, features, outputs, j, calls, img_inputs,
                   processed, log>>

(***************************************************************************)
(* predict                                                                 *)
(***************************************************************************)
\* Line 49: predictor = _get_predictor(predictor)
predict ==
    /\ pc = "predict"
    /\ stack' = Append(stack, "_get_predictor")
    /\ pc' = "_get_predictor"
    /\ log' = Append(log, Event("_get_predictor", "predict"))
    /\ UNCHANGED <<entry, args, frames, handle, out, features, outputs, j, calls,
                   img_inputs, gen, accesses, processed, ret, result, err>>

\* A chain that takes a string for a sequence of filepaths.
Route_StrAsSequence(inputs) ==
    CASE inputs.kind = "ndarray" -> "predict_from_array"
      [] inputs.kind = "SpatialImage" -> "predict_from_img"
      [] inputs.kind \in {"str", "list", "tuple"} -> "predict_from_filepaths"
      [] OTHER -> "none"

\* A chain whose last branch is an else: what is no image, string or sequence
\* is taken for an array.
Route_ElseArray(inputs) ==
    CASE inputs.kind = "SpatialImage" -> "predict_from_img"
      [] inputs.kind = "str" -> "predict_from_filepath"
      [] inputs.kind \in {"list", "tuple"} -> "predict_from_filepaths"
      [] OTHER -> "predict_from_array"

\* The isinstance chain of lines 51-74.
Route(inputs) ==
    CASE inputs.kind = "ndarray" -> "predict_from_array"
      [] inputs.kind = "SpatialImage" -> "predict_from_img"
      [] inputs.kind = "str" -> "predict_from_filepath"
      [] inputs.kind \in {"list", "tuple"} -> "predict_from_filepaths"
      [] OTHER -> "none"

\* The keyword arguments predict gives the predictor it routes to.
RouteArgs(route) ==
    IF route = "predict_from_array"
    THEN Args(args.inputs, handle, args.block_shape, "normalize_zero_one",
              args.batch_size, "-")
    ELSE Args(args.inputs, handle, args.block_shape, args.normalizer,
              args.batch_size, args.dtype)

\* Lines 51-81: the branch taken and the call it makes.
predict_dispatch ==
    /\ pc = "predict_dispatch"
    /\ LET route == Route(args.inputs)
       IN  IF route = "none"
           THEN /\ pc' = "predict_return"
                /\ UNCHANGED <<frames, stack, log>>
           ELSE Call(route, RouteArgs(route))
    /\ UNCHANGED <<entry, args, handle, out, features, outputs, j, calls, img_inputs,
                   gen, accesses, processed, ret, result, err>>

\* out = <the value the call returned>
predict_out ==
    /\ pc = "predict_out"
    /\ out' = ret
    /\ pc' = "predict_return"
    /\ UNCHANGED <<entry, args, stack, frames, handle, features, outputs, j, calls,
                   img_inputs, gen, accesses, processed, ret, result, err, log>>

\* Line 82: return out
predict_return ==
    /\ pc = "predict_return"
    /\ IF out = Unbound
       THEN /\ Raise(Exception("UnboundLocalError", "None"))
            /\ UNCHANGED <<result, ret>>
       ELSE /\ Return(out)
            /\ UNCHANGED <<gen, accesses, err>>
    /\ UNCHANGED <<entry, args, frames, handle, out, features, outputs, j, calls,
                   img_inputs, processed, log>>

(***************************************************************************)
(* predict_from_array                                                      *)
(***************************************************************************)
Truthy(normalizer) == normalizer # NoNormalizer

\* Lines 104-105: if normalizer: features = normalizer(inputs)
predict_from_array ==
    /\ pc = "predict_from_array"
    /\ LET f == frames["predict_from_array"]
       IN  features' = IF Truthy(f.normalizer)
                       THEN CallNormalizer(f.normalizer, f.inputs)
                       ELSE Unbound
    /\ outputs' = Unbound
    /\ j' = 0
    /\ calls' = <<>>
    /\ pc' = "pfa_to_blocks"
    /\ UNCHANGED <<entry, args, stack, frames, handle, out, img_inputs, gen, accesses,
                   processed, ret, result, err, log>>

\* Lines 106-114: the blocks, the zeroed outputs, the channel axis.
pfa_to_blocks ==
    /\ pc = "pfa_to_blocks"
    /\ IF features = Unbound
       THEN /\ Raise(Exception("UnboundLocalError", "None"))
            /\ UNCHANGED <<features, outputs>>
       ELSE LET blocks == to_blocks(features, frames["predict_from_array"].block_shape)
            IN  /\ outputs' = zeros_like(blocks)
                /\ features' = AddChannel(blocks)
                /\ pc' = "pfa_loop"
                /\ UNCHANGED <<stack, gen, accesses, err>>
    /\ UNCHANGED <<entry, args, frames, handle, out, j, calls, img_inputs, processed,
                   ret, result, log>>

n_blocks == Len(features.data)

\* A loop that steps one block too far: range(0, n_blocks, batch_size + 1).
NextJ_SkipsBlock(jj, batch_size) == jj + batch_size + 1

\* A loop that ignores the batch size: range(0, n_blocks).
NextJ_EveryBlock(jj, batch_size) == jj + 1

\* range(0, n_blocks, batch_size): the value of j after j.
NextJ(jj, batch_size) == jj + batch_size

\* outputs[j:j + batch_size] = value
AssignSlice(a, jj, batch_size, value) ==
    [a EXCEPT !.data = [b \in 1..Len(a.data) |->
                          IF b \in SliceIdx(Len(a.data), jj, batch_size)
                          THEN value[b - jj] ELSE a.data[b]]]

\* Lines 115-118: one iteration of the loop.
pfa_loop ==
    /\ pc = "pfa_loop"
    /\ j < n_blocks
    /\ LET batch_size == frames["predict_from_array"].batch_size
           feed == [volume |-> Slice(features.data, j, batch_size)]
       IN  /\ outputs' = AssignSlice(outputs, j, batch_size,
                                     CallPredictor(feed)[_INFERENCE_CLASSES_KEY])
           /\ calls' = Append(calls, [lo |-> j, hi |-> j + Len(feed.volume)])
           /\ j' = NextJ(j, batch_size)
    /\ UNCHANGED <<entry, args, pc, stack, frames, handle, out, features, img_inputs,
                   gen, accesses, processed, ret, result, err, log>>

\* Line 120: return from_blocks(outputs, output_shape=inputs.shape)
pfa_return ==
    /\ pc = "pfa_loop"
    /\ j >= n_blocks
    /\ Return(from_blocks(outputs, Len(frames["predict_from_array"].inputs.data)))
    /\ UNCHANGED <<entry, args, frames, handle, out, features, outputs, j, calls,
                   img_inputs, gen, accesses, processed, err, log>>

(***************************************************************************)
(* predict_from_img                                                        *)
(***************************************************************************)
\* No type check at all.
IsSpatialImage_Unchecked(img) == TRUE

\* isinstance(img, nib.spatialimages.SpatialImage)
IsSpatialImage(img) == img.kind = "SpatialImage"

\* Lines 144-145: the type check.
predict_from_img ==
    /\ pc = "predict_from_img"
    /\ IF ~IsSpatialImage(frames["predict_from_img"].inputs)
       THEN /\ Raise(Exception("ValueError", "None"))
            /\ UNCHANGED img_inputs
       ELSE /\ img_inputs' = Unbound
            /\ pc' = "pfi_extract"
            /\ UNCHANGED <<stack, gen, accesses, err>>
    /\ UNCHANGED <<entry, args, frames, handle, out, features, outputs, j, calls,
                   processed, ret, result, log>>

\* Lines 146-149: the array of the image, cast to dtype unless dtype is None.
pfi_extract ==
    /\ pc = "pfi_extract"
    /\ LET f == frames["predict_from_img"]
           a == asarray(f.inputs.dataobj)
       IN  img_inputs' = IF f.dtype # NoDtype THEN astype(a, f.dtype) ELSE a
    /\ pc' = "pfi_call"
    /\ UNCHANGED <<entry, args, stack, frames, handle, out, features, outputs, j, calls,
                   gen, accesses, processed, ret, result, err, log>>

\* Lines 150-155: y = predict_from_array(...)
pfi_call ==
    /\ pc = "pfi_call"
    /\ LET f == frames["predict_from_img"]
       IN  Call("predict_from_array",
                Args(img_inputs, f.predictor, f.block_shape, f.normalizer,
                     f.batch_size, "-"))
    /\ UNCHANGED <<entry, args, handle, out, features, outputs, j, calls, img_inputs,
                   gen, accesses, processed, ret, result, err>>

\* Lines 156-157: the predictions with the image's affine, header and extra.
pfi_return ==
    /\ pc = "pfi_return"
    /\ LET img == frames["predict_from_img"].inputs
       IN  Return(SpatialImage(ret, img.affine, img.header, img.extra))
    /\ UNCHANGED <<entry, args, frames, handle, out, features, outputs, j, calls,
                   img_inputs, gen, accesses, processed, err, log>>

(***************************************************************************)
(* predict_from_filepath                                                   *)
(***************************************************************************)
\* Lines 182-183: the file must exist.
predict_from_filepath ==
    /\ pc = "predict_from_filepath"
    /\ IF ~is_file(frames["predict_from_filepath"].inputs.s)
       THEN Raise(Exception("FileNotFoundError", "None"))
       ELSE /\ pc' = "pff_load"
            /\ UNCHANGED <<stack, gen, accesses, err>>
    /\ UNCHANGED <<entry, args, frames, handle, out, features, outputs, j, calls,
                   img_inputs, processed, ret, result, log>>

\* The keyword arguments of the call of lines 185-190; dtype is not among
\* them, so predict_from_img takes its default.
ImgArgs(f, img) ==
    Args(img, f.predictor, f.block_shape, f.normalizer, f.batch_size, DT_X)

\* Lines 184-190: load the image and call predict_from_img.
pff_load ==
    /\ pc = "pff_load"
    /\ LET f == frames["predict_from_filepath"]
       IN  Call("predict_from_img", ImgArgs(f, nib_load(f.inputs.s)))
    /\ UNCHANGED <<entry, args, handle, out, features, outputs, j, calls, img_inputs,
                   gen, accesses, processed, ret, result, err>>

\* Line 185: return what predict_from_img returned.
pff_return ==
    /\ pc = "pff_return"
    /\ Return(ret)
    /\ UNCHANGED <<entry, args, frames, handle, out, features, outputs, j, calls,
                   img_inputs, gen, accesses, processed, err, log>>

(***************************************************************************)
(* predict_from_filepaths: a generator function.  Calling it runs none of  *)
(* its body; each next() of the client runs it up to the next yield.       *)
(***************************************************************************)
GeneratorObject == [kind |-> "generator"]

predict_from_filepaths ==
    /\ pc = "predict_from_filepaths"
    /\ gen' = [state |-> "suspended", idx |-> 0]
    /\ Return(GeneratorObject)
    /\ UNCHANGED <<entry, args, frames, handle, out, features, outputs, j, calls,
                   img_inputs, accesses, processed, err, log>>

filepaths == frames["predict_from_filepaths"].inputs.items

\* The client holds the generator and may call next() on it.
CanNext ==
    /\ pc = "done"
    /\ result = GeneratorObject
    /\ Len(accesses) < Len(filepaths) + 1 + MaxExtraNext

\* next() on a suspended generator with a filepath left: lines 215-222, the
\* loop takes the next filepath and calls predict_from_filepath.
gen_next ==
    /\ CanNext
    /\ gen.state = "suspended"
    /\ gen.idx < Len(filepaths)
    /\ LET f == frames["predict_from_filepaths"]
           filepath == filepaths[gen.idx + 1]
       IN  /\ gen' = [state |-> "running", idx |-> gen.idx + 1]
           /\ processed' = Append(processed, filepath)
           /\ stack' = <<"generator", "predict_from_filepath">>
           /\ pc' = "predict_from_filepath"
           /\ frames' = [frames EXCEPT !["predict_from_filepath"] =
                           Args([kind |-> "str", s |-> filepath], f.predictor,
                                f.block_shape, f.normalizer, f.batch_size, f.dtype)]
           /\ log' = Append(log, Event("predict_from_filepath", "generator"))
    /\ UNCHANGED <<entry, args, handle, out, features, outputs, j, calls, img_inputs,
                   accesses, ret, result, err>>

\* Line 216: yield the value predict_from_filepath returned.
gen_yield ==
    /\ pc = "gen_yield"
    /\ accesses' = Append(accesses, Access("value", ret, NoError))
    /\ gen' = [gen EXCEPT !.state = "suspended"]
    /\ stack' = <<>>
    /\ pc' = "done"
    /\ UNCHANGED <<entry, args, frames, handle, out, features, outputs, j, calls,
                   img_inputs, processed, ret, result, err, log>>

\* next() when the loop has no filepath left, or on a finished generator:
\* StopIteration, and the generator is finished.
gen_stop ==
    /\ CanNext
    /\ gen.state = "closed" \/ (gen.state = "suspended" /\ gen.idx = Len(filepaths))
    /\ gen' = [gen EXCEPT !.state = "closed"]
    /\ accesses' = Append(accesses, Access("StopIteration", Unbound, NoError))
    /\ UNCHANGED <<entry, args, pc, stack, frames, handle, out, features, outputs, j,
                   calls, img_inputs, processed, ret, result, err, log>>

(***************************************************************************)
(* The specification.                                                      *)
(***************************************************************************)
Next ==
    \/ predict
    \/ _get_predictor
    \/ predict_dispatch
    \/ predict_out
    \/ predict_return
    \/ predict_from_array
    \/ pfa_to_blocks
    \/ pfa_loop
    \/ pfa_return
    \/ predict_from_img
    \/ pfi_extract
    \/ pfi_call
    \/ pfi_return
    \/ predict_from_filepath
    \/ pff_load
    \/ pff_return
    \/ predict_from_filepaths
    \/ gen_next
    \/ gen_yield
    \/ gen_stop

Spec == Init /\ [][Next]_vars

(***************************************************************************)
(* Properties.                                                             *)
(***************************************************************************)
ArrayFrame == frames["predict_from_array"]

\* The prediction of a volume made block by block, with no batching: every
\* block of the features is labelled on its own and the labels are reassembled.
BlockwisePrediction(a, block_shape) ==
    LET blocks == AddChannel(to_blocks(a, block_shape))
    IN  from_blocks([kind |-> "ndarray", dtype |-> a.dtype,
                     data |-> [b \in 1..Len(blocks.data) |-> PredictBlock(blocks.data[b])]],
                    Len(a.data))

\* predict_from_array has just returned, to the client or to its caller.
ArrayReturned ==
    \/ pc = "done" /\ entry = "predict_from_array"
    \/ pc = "pfi_return"
    \/ pc = "predict_out" /\ args.inputs.kind = "ndarray"
ReturnedArray == IF pc = "done" THEN result ELSE ret

\* C1: whatever the batch_size, the array predict_from_array returns is the
\* block-by-block prediction of the normalized volume, which does not depend
\* on batch_size; so the result is the same for every batch_size >= 1.
C1_BatchSizeIndependent ==
    ArrayReturned =>
        ReturnedArray = BlockwisePrediction(
                            CallNormalizer(ArrayFrame.normalizer, ArrayFrame.inputs),
                            ArrayFrame.block_shape)

\* A call with three blocks and a batch_size of two, which does not divide
\* the block count, has returned, and its last block holds a nonzero label.
C1_Witness ==
    /\ pc = "done" /\ entry = "predict_from_array"
    /\ args.batch_size = 2 /\ Len(calls) = 2
    /\ Len(outputs.data) = 3
    /\ \E i \in 1..Len(outputs.data[3]) : outputs.data[3][i] = 1

\* The loop of predict_from_array is running or has just ended.
InLoop == pc = "pfa_loop"
LoopEnded == InLoop /\ j >= n_blocks
\* The number of predictor calls that were given block i (0-based).
Writes(i) == Cardinality({c \in 1..Len(calls) : calls[c].lo <= i /\ i < calls[c].hi})

\* C9: the loop calls the predictor once per chunk, in ascending order, on the
\* contiguous chunks [j, min(j + b, n)); after c calls exactly the blocks of
\* the first c chunks have been written, each once and with the labels of the
\* call on its chunk; when the loop ends there were ceil(n / b) calls, every
\* block was written exactly once and only the last chunk may be shorter than b.
C9_SequentialChunks ==
    InLoop =>
        LET b == ArrayFrame.batch_size
            n == n_blocks
        IN  /\ j = Len(calls) * b
            /\ \A c \in 1..Len(calls) :
                 /\ calls[c].lo = (c - 1) * b
                 /\ calls[c].hi = Min(c * b, n)
                 /\ calls[c].lo < calls[c].hi
                 /\ c < Len(calls) => calls[c].hi - calls[c].lo = b
            /\ \A i \in 0..(n - 1) :
                 IF i < j
                 THEN /\ Writes(i) = 1
                      /\ outputs.data[i + 1] = PredictBlock(features.data[i + 1])
                 ELSE /\ Writes(i) = 0
                      /\ \A v \in 1..Len(outputs.data[i + 1]) : outputs.data[i + 1][v] = 0
            /\ LoopEnded => Len(calls) = CeilDiv(n, b)

\* The loop over three blocks with a batch_size of two has ended after two
\* calls, the second on the short chunk [2, 3).
C9_Witness ==
    /\ LoopEnded
    /\ n_blocks = 3 /\ ArrayFrame.batch_size = 2
    /\ calls = <<[lo |-> 0, hi |-> 2], [lo |-> 2, hi |-> 3]>>

ByPredict(e) == e.caller = "predict"
IsResolve(e) == e.fn = "_get_predictor"
IsRouted(e) == e.fn # "_get_predictor"
\* The calls predict itself made: of the resolver, and of predictors.
Resolves == SelectSeq(SelectSeq(log, ByPredict), IsResolve)
Routed == SelectSeq(SelectSeq(log, ByPredict), IsRouted)

RecognisedKinds == {"ndarray", "SpatialImage", "str", "list", "tuple"}
\* The predictor the dispatcher is to use for each kind of inputs.
RouteOfKind(kind) ==
    CASE kind = "ndarray" -> "predict_from_array"
      [] kind = "SpatialImage" -> "predict_from_img"
      [] kind = "str" -> "predict_from_filepath"
      [] kind \in {"list", "tuple"} -> "predict_from_filepaths"

\* predict has just returned to the client (which has not yet used the result).
PredictReturned ==
    entry = "predict" /\ pc = "done" /\ accesses = <<>> /\ gen.state # "running"

\* C3: predict calls _get_predictor exactly once, before anything else; for
\* inputs of a recognised kind it then calls exactly one predictor, the one of
\* the kind of inputs, with the resolved predictor, and what predict returns
\* is what that predictor returned.
C3_RoutesToOnePredictor ==
    entry = "predict" =>
        /\ Len(Resolves) = IF pc = "predict" THEN 0 ELSE 1
        /\ Len(Routed) <= 1
        /\ Routed # <<>> =>
             /\ handle # Unbound
             /\ args.inputs.kind \in RecognisedKinds
             /\ Routed[1].fn = RouteOfKind(args.inputs.kind)
             /\ frames[Routed[1].fn].predictor = handle
             /\ frames[Routed[1].fn].inputs = args.inputs
        /\ (args.inputs.kind \in RecognisedKinds
              /\ pc \in {"predict_out", "predict_return", "done"}) => Len(Routed) = 1
        /\ pc = "predict_return" /\ Routed # <<>> => out = ret
        /\ PredictReturned => result = ret

\* predict was given a tuple of two filepaths and a path to a saved model,
\* and has returned the generator predict_from_filepaths made.
C3_Witness ==
    /\ PredictReturned
    /\ args.inputs.kind = "tuple" /\ Len(args.inputs.items) = 2
    /\ args.predictor.kind = "str"
    /\ Routed = <<Event("predict_from_filepaths", "predict")>>
    /\ result = GeneratorObject

\* The requests made of the generator that it answered or is answering by
\* processing a filepath.
Requests ==
    Cardinality({i \in 1..Len(accesses) : accesses[i].outcome # "StopIteration"})
        + (IF gen.state = "running" THEN 1 ELSE 0)

\* C4: the generator of predict_from_filepaths processes the filepaths in
\* input order, one per request and none before it is requested; every access
\* before the first failure yields the result of the filepath at its position;
\* the access at the first failing filepath raises, and after it no filepath
\* is processed and no result produced.
C4_LazyAbortAtFirstFailure ==
    gen.state # "none" =>
        /\ Len(processed) <= Len(filepaths)
        /\ processed = SubSeq(filepaths, 1, Len(processed))
        /\ Len(processed) = Requests
        /\ \A i \in 1..Len(accesses) :
             /\ accesses[i].outcome = "value" =>
                  /\ \A h \in 1..(i - 1) : accesses[h].outcome = "value"
                  /\ i <= Len(filepaths)
                  /\ is_file(filepaths[i])
                  /\ accesses[i].value.kind = "SpatialImage"
                  /\ accesses[i].value.header = nib_load(filepaths[i]).header
             /\ accesses[i].outcome = "raise" =>
                  /\ \A h \in 1..(i - 1) : accesses[h].outcome = "value"
                  /\ \A h \in (i + 1)..Len(accesses) : accesses[h].outcome = "StopIteration"
                  /\ Len(processed) = i
                  /\ gen.state = "closed"
             /\ (i <= Len(filepaths) /\ ~is_file(filepaths[i])
                   /\ \A h \in 1..(i - 1) : accesses[h].outcome = "value")
                  => accesses[i].outcome = "raise"

\* Three filepaths of which the second does not exist: the first access gave
\* a result, the second raised, the third found the generator finished.
C4_Witness ==
    /\ gen.state = "closed"
    /\ filepaths = <<"a.nii", "missing.nii", "b.nii">>
    /\ Len(accesses) = 3
    /\ accesses[1].outcome = "value"
    /\ accesses[2] = Access("raise", Unbound, Exception("FileNotFoundError", "None"))
    /\ accesses[3].outcome = "StopIteration"
    /\ processed = <<"a.nii", "missing.nii">>

\* predict_from_img was called by the client with something that is no image.
NonImageCall == entry = "predict_from_img" /\ args.inputs.kind # "SpatialImage"
IsArrayCall(e) == e.fn = "predict_from_array"

\* What holds of a call of predict_from_img with a non-image, but for the
\* type of the error: it extracts no array, calls nothing and returns nothing.
RejectedEarly ==
    /\ pc \in {"predict_from_img", "raised"}
    /\ img_inputs = Unbound
    /\ SelectSeq(log, IsArrayCall) = <<>>
    /\ calls = <<>>
    /\ result = Unbound

\* C5 as stated: a non-image is rejected with a TypeError-class error before
\* any array is extracted or the predictor invoked.
C5_RejectsWithTypeError ==
    NonImageCall => RejectedEarly /\ (pc = "raised" => err.type = "TypeError")

\* C5 as amended: a non-image is rejected with a ValueError before any array
\* is extracted or the predictor invoked.
C5_RejectsWithValueError ==
    NonImageCall => RejectedEarly /\ (pc = "raised" => err = Exception("ValueError", "None"))

\* predict_from_img was given an array and has raised.
C5_Witness ==
    NonImageCall /\ args.inputs.kind = "ndarray" /\ pc = "raised" /\ err.type = "ValueError"

\* The client asked for a predictor, directly or through predict, with a
\* value that is no handle and from which no model can be loaded.
LoadFailure ==
    /\ entry \in {"_get_predictor", "predict"}
    /\ args.predictor.kind # "Predictor"
    /\ ~TryLoad(args.predictor).ok

\* C6: when loading fails, for a value that is no path or for a path that
\* holds no saved model, the call raises the one predictor-load error
\* (ValueError) with the underlying error as its context; no handle results.
C6_LoadFailureWrapped ==
    LoadFailure =>
        /\ pc \in {"predict", "_get_predictor", "raised"}
        /\ handle = Unbound /\ result = Unbound
        /\ pc = "raised" =>
             /\ err.type = "ValueError"
             /\ err.context = (IF PathConvertible(args.predictor) THEN "OSError" ELSE "TypeError")

\* predict was given an int for a predictor: Path() raised TypeError and the
\* client got the ValueError that wraps it.
C6_Witness ==
    /\ LoadFailure /\ entry = "predict" /\ args.predictor.kind = "int"
    /\ pc = "raised" /\ err = Exception("ValueError", "TypeError")

\* predict was given inputs of none of the recognised kinds.
Unmatched == entry = "predict" /\ args.inputs.kind \notin RecognisedKinds
OnlyResolverCalled == \A i \in 2..Len(log) : log[i].fn = "_get_predictor"

\* C8 as stated: with inputs of no recognised kind predict calls no predictor
\* and completes with a null result, raising nothing.
C8_UnmatchedReturnsNull ==
    Unmatched /\ handle # Unbound =>
        /\ OnlyResolverCalled
        /\ pc # "raised"
        /\ pc = "done" => result = NoneValue

\* C8 as amended: with inputs of no recognised kind predict calls no predictor
\* and returns nothing: it raises, UnboundLocalError at `return out` when the
\* predictor was resolved (and the resolver's ValueError when it was not).
C8_UnmatchedRaises ==
    Unmatched =>
        /\ OnlyResolverCalled
        /\ pc \in {"predict", "_get_predictor", "predict_dispatch", "predict_return", "raised"}
        /\ out = Unbound /\ result = Unbound
        /\ pc = "raised" =>
             err = IF handle = Unbound
                   THEN Exception("ValueError", TryLoad(args.predictor).error.type)
                   ELSE Exception("UnboundLocalError", "None")

\* predict was given a dict, resolved its predictor and raised at `return out`.
C8_Witness ==
    /\ Unmatched /\ args.inputs.kind = "dict" /\ handle # Unbound
    /\ pc = "raised" /\ err.type = "UnboundLocalError"

\* C2: with no normalizer predict_from_array completes and returns the
\* block-by-block prediction of the volume as given.
C2_NoNormalizerUsesVolume ==
    entry = "predict_from_array" /\ args.normalizer = NoNormalizer =>
        /\ pc # "raised"
        /\ pc = "done" => result = BlockwisePrediction(args.inputs, args.block_shape)

\* C7: the array predict_from_filepath has predict_from_array work on is the
\* array of the loaded image cast to the dtype predict_from_filepath was given.
C7_DtypeReachesArray ==
    LET f == frames["predict_from_filepath"]
    IN  (Active("predict_from_filepath") /\ Active("predict_from_array")
           /\ f.dtype # NoDtype) =>
            ArrayFrame.inputs = astype(asarray(nib_load(f.inputs.s).dataobj), f.dtype)

\* C10: on every route of predict the normalizer predict_from_array is given,
\* and applies, is the one the caller gave predict.
C10_CallerNormalizerUsed ==
    entry = "predict" /\ Active("predict_from_array") =>
        /\ ArrayFrame.normalizer = args.normalizer
        /\ (pc = "pfa_to_blocks" /\ Truthy(args.normalizer)) =>
             features = CallNormalizer(args.normalizer, ArrayFrame.inputs)

====
